---------------------------- MODULE Spec2Model ----------------------------
(***************************************************************************)
(* PIPE_CONTROL emission helpers of the iris driver                        *)
(* (src/gallium/drivers/iris/iris_pipe_control.c).                         *)
(*                                                                         *)
(* The file holds five entry points: iris_emit_pipe_control_flush,         *)
(* iris_emit_pipe_control_write, iris_emit_end_of_pipe_sync,               *)
(* iris_texture_barrier and iris_memory_barrier.  All of them end in       *)
(* batch->vtbl->emit_raw_pipe_control(batch, flags, bo, offset, imm).      *)
(* The model keeps, per batch, the calls the running entry point makes on  *)
(* it, in order: those of emit_raw_pipe_control, with their arguments, and *)
(* those of iris_emit_pipe_control_flush.  The batch fields the barriers   *)
(* read (contains_draw, cache.render->entries, cache.depth->entries)       *)
(* belong to the driver and take any value.                                *)
(*                                                                         *)
(* A set of PIPE_CONTROL_* bits is a set of bit names: `a | b` is union,   *)
(* `a & b` intersection, `a & ~b` difference and `(a & b) != 0` a          *)
(* non-empty intersection.                                                 *)
(***************************************************************************)
EXTENDS Naturals, Sequences

(***************************************************************************)
(* Bounds of the exploration.                                              *)
(***************************************************************************)
\* cache.render->entries and cache.depth->entries range over 0..MaxEntries
MaxEntries == 1
\* the non-zero offset handed to iris_emit_pipe_control_write
MaxOffset == 8
\* the non-zero immediate handed to iris_emit_pipe_control_write
MaxImm == 1

(***************************************************************************)
(* The batches of a context: ice->batches[IRIS_BATCH_RENDER] and           *)
(* ice->batches[IRIS_BATCH_COMPUTE].                                       *)
(***************************************************************************)
IRIS_BATCH_RENDER == "IRIS_BATCH_RENDER"
IRIS_BATCH_COMPUTE == "IRIS_BATCH_COMPUTE"
Batches == {IRIS_BATCH_RENDER, IRIS_BATCH_COMPUTE}

(***************************************************************************)
(* PIPE_CONTROL_* bits used by the file.                                   *)
(***************************************************************************)
PIPE_CONTROL_DEPTH_CACHE_FLUSH == "PIPE_CONTROL_DEPTH_CACHE_FLUSH"
PIPE_CONTROL_RENDER_TARGET_FLUSH == "PIPE_CONTROL_RENDER_TARGET_FLUSH"
PIPE_CONTROL_DATA_CACHE_FLUSH == "PIPE_CONTROL_DATA_CACHE_FLUSH"
PIPE_CONTROL_TEXTURE_CACHE_INVALIDATE == "PIPE_CONTROL_TEXTURE_CACHE_INVALIDATE"
PIPE_CONTROL_VF_CACHE_INVALIDATE == "PIPE_CONTROL_VF_CACHE_INVALIDATE"
PIPE_CONTROL_CONST_CACHE_INVALIDATE == "PIPE_CONTROL_CONST_CACHE_INVALIDATE"
PIPE_CONTROL_CS_STALL == "PIPE_CONTROL_CS_STALL"
PIPE_CONTROL_WRITE_IMMEDIATE == "PIPE_CONTROL_WRITE_IMMEDIATE"
PIPE_CONTROL_WRITE_TIMESTAMP == "PIPE_CONTROL_WRITE_TIMESTAMP"
PIPE_CONTROL_WRITE_DEPTH_COUNT == "PIPE_CONTROL_WRITE_DEPTH_COUNT"

\* The two masks come from iris_context.h; their members are the flush and
\* the invalidate bits this file uses.
PIPE_CONTROL_CACHE_FLUSH_BITS ==
    {PIPE_CONTROL_DEPTH_CACHE_FLUSH, PIPE_CONTROL_RENDER_TARGET_FLUSH,
     PIPE_CONTROL_DATA_CACHE_FLUSH}

PIPE_CONTROL_CACHE_INVALIDATE_BITS ==
    {PIPE_CONTROL_TEXTURE_CACHE_INVALIDATE, PIPE_CONTROL_VF_CACHE_INVALIDATE,
     PIPE_CONTROL_CONST_CACHE_INVALIDATE}

WriteBits ==
    {PIPE_CONTROL_WRITE_IMMEDIATE, PIPE_CONTROL_WRITE_TIMESTAMP,
     PIPE_CONTROL_WRITE_DEPTH_COUNT}

AllBits ==
    PIPE_CONTROL_CACHE_FLUSH_BITS \cup PIPE_CONTROL_CACHE_INVALIDATE_BITS
    \cup WriteBits \cup {PIPE_CONTROL_CS_STALL}

\* every value of a `uint32_t flags` argument over these bits
AllFlags == SUBSET AllBits

(***************************************************************************)
(* PIPE_BARRIER_* bits of the `unsigned flags` of iris_memory_barrier.     *)
(* PIPE_BARRIER_SHADER_BUFFER stands for the bits the function never       *)
(* tests.                                                                  *)
(***************************************************************************)
PIPE_BARRIER_VERTEX_BUFFER == "PIPE_BARRIER_VERTEX_BUFFER"
PIPE_BARRIER_INDEX_BUFFER == "PIPE_BARRIER_INDEX_BUFFER"
PIPE_BARRIER_INDIRECT_BUFFER == "PIPE_BARRIER_INDIRECT_BUFFER"
PIPE_BARRIER_CONSTANT_BUFFER == "PIPE_BARRIER_CONSTANT_BUFFER"
PIPE_BARRIER_TEXTURE == "PIPE_BARRIER_TEXTURE"
PIPE_BARRIER_FRAMEBUFFER == "PIPE_BARRIER_FRAMEBUFFER"
PIPE_BARRIER_SHADER_BUFFER == "PIPE_BARRIER_SHADER_BUFFER"

AllBarriers ==
    SUBSET {PIPE_BARRIER_VERTEX_BUFFER, PIPE_BARRIER_INDEX_BUFFER,
            PIPE_BARRIER_INDIRECT_BUFFER, PIPE_BARRIER_CONSTANT_BUFFER,
            PIPE_BARRIER_TEXTURE, PIPE_BARRIER_FRAMEBUFFER,
            PIPE_BARRIER_SHADER_BUFFER}

(***************************************************************************)
(* Buffer objects: NULL, batch->screen->workaround_bo, and one buffer of   *)
(* a caller of iris_emit_pipe_control_write.                               *)
(***************************************************************************)
NULL == "NULL"
workaround_bo == "workaround_bo"
query_bo == "query_bo"
Buffers == {workaround_bo, query_bo}

\* the (offset, imm) pairs handed to iris_emit_pipe_control_write
Words == {<<0, 0>>, <<MaxOffset, MaxImm>>}

VARIABLES
    contains_draw,   \* batch -> batch->contains_draw
    render_entries,  \* batch -> batch->cache.render->entries
    depth_entries,   \* batch -> batch->cache.depth->entries
    calls,           \* batch -> the calls made on it by the entry point, in order
    last             \* the entry point called, with its arguments

vars == <<contains_draw, render_entries, depth_entries, calls, last>>

(***************************************************************************)
(* One entry of a batch's call record: the function called and its         *)
(* arguments.  The record keeps the calls of emit_raw_pipe_control and of  *)
(* iris_emit_pipe_control_flush.                                           *)
(***************************************************************************)
RAW == "emit_raw_pipe_control"
FLUSH == "iris_emit_pipe_control_flush"

Entry(fn, flags, bo, offset, imm) ==
    [fn |-> fn, flags |-> flags, bo |-> bo, offset |-> offset, imm |-> imm]

(***************************************************************************)
(* batch->vtbl->emit_raw_pipe_control(batch, flags, bo, offset, imm):      *)
(* one more command in the batch's record s.                               *)
(***************************************************************************)
\* mutant: a command the batch already holds is not emitted again
emit_raw_pipe_control_once(s, flags, bo, offset, imm) ==
    IF \E k \in 1..Len(s) : s[k] = Entry(RAW, flags, bo, offset, imm)
    THEN s
    ELSE Append(s, Entry(RAW, flags, bo, offset, imm))

emit_raw_pipe_control(s, flags, bo, offset, imm) ==
    Append(s, Entry(RAW, flags, bo, offset, imm))

\* mutant: the write goes to the start of the buffer, the offset is dropped
pipe_control_write_no_offset(s, flags, bo, offset, imm) ==
    emit_raw_pipe_control(s, flags, bo, 0, imm)

iris_emit_pipe_control_write(s, flags, bo, offset, imm) ==
    emit_raw_pipe_control(s, flags, bo, offset, imm)

\* mutant: the sync command goes out without CS_STALL
end_of_pipe_sync_no_stall(s, flags) ==
    iris_emit_pipe_control_write(
        s, flags \cup {PIPE_CONTROL_WRITE_IMMEDIATE}, workaround_bo, 0, 0)

\* mutant: the sync command goes out without PIPE_CONTROL_WRITE_IMMEDIATE
end_of_pipe_sync_no_write_bit(s, flags) ==
    iris_emit_pipe_control_write(
        s, flags \cup {PIPE_CONTROL_CS_STALL}, workaround_bo, 0, 0)

iris_emit_end_of_pipe_sync(s, flags) ==
    iris_emit_pipe_control_write(
        s, flags \cup {PIPE_CONTROL_CS_STALL, PIPE_CONTROL_WRITE_IMMEDIATE},
        workaround_bo, 0, 0)

\* mutant: the second command keeps CS_STALL
pipe_control_flush_body_keeps_stall(s, flags) ==
    IF /\ flags \cap PIPE_CONTROL_CACHE_FLUSH_BITS # {}
       /\ flags \cap PIPE_CONTROL_CACHE_INVALIDATE_BITS # {}
    THEN emit_raw_pipe_control(
             iris_emit_end_of_pipe_sync(s, flags \cap PIPE_CONTROL_CACHE_FLUSH_BITS),
             flags \ PIPE_CONTROL_CACHE_FLUSH_BITS, NULL, 0, 0)
    ELSE emit_raw_pipe_control(s, flags, NULL, 0, 0)

\* mutant: no split, the flags go out in one command
pipe_control_flush_body_unsplit(s, flags) ==
    emit_raw_pipe_control(s, flags, NULL, 0, 0)

\* mutant: the split is taken when either kind of bit is set (|| for &&)
pipe_control_flush_body_splits_any(s, flags) ==
    IF \/ flags \cap PIPE_CONTROL_CACHE_FLUSH_BITS # {}
       \/ flags \cap PIPE_CONTROL_CACHE_INVALIDATE_BITS # {}
    THEN emit_raw_pipe_control(
             iris_emit_end_of_pipe_sync(s, flags \cap PIPE_CONTROL_CACHE_FLUSH_BITS),
             flags \ (PIPE_CONTROL_CACHE_FLUSH_BITS \cup {PIPE_CONTROL_CS_STALL}),
             NULL, 0, 0)
    ELSE emit_raw_pipe_control(s, flags, NULL, 0, 0)

\* mutant: the invalidate command goes out before the end-of-pipe sync
pipe_control_flush_body_invalidate_first(s, flags) ==
    IF /\ flags \cap PIPE_CONTROL_CACHE_FLUSH_BITS # {}
       /\ flags \cap PIPE_CONTROL_CACHE_INVALIDATE_BITS # {}
    THEN iris_emit_end_of_pipe_sync(
             emit_raw_pipe_control(
                 s, flags \ (PIPE_CONTROL_CACHE_FLUSH_BITS \cup {PIPE_CONTROL_CS_STALL}),
                 NULL, 0, 0),
             flags \cap PIPE_CONTROL_CACHE_FLUSH_BITS)
    ELSE emit_raw_pipe_control(s, flags, NULL, 0, 0)

\* the body of iris_emit_pipe_control_flush
pipe_control_flush_body(s, flags) ==
    IF /\ flags \cap PIPE_CONTROL_CACHE_FLUSH_BITS # {}
       /\ flags \cap PIPE_CONTROL_CACHE_INVALIDATE_BITS # {}
    THEN emit_raw_pipe_control(
             iris_emit_end_of_pipe_sync(s, flags \cap PIPE_CONTROL_CACHE_FLUSH_BITS),
             flags \ (PIPE_CONTROL_CACHE_FLUSH_BITS \cup {PIPE_CONTROL_CS_STALL}),
             NULL, 0, 0)
    ELSE emit_raw_pipe_control(s, flags, NULL, 0, 0)

iris_emit_pipe_control_flush(s, flags) ==
    pipe_control_flush_body(Append(s, Entry(FLUSH, flags, NULL, 0, 0)), flags)

(***************************************************************************)
(* iris_texture_barrier: c is the call record of every batch.              *)
(***************************************************************************)
\* mutant: the render batch's depth cache entries are not looked at
texture_barrier_render_no_depth(c) ==
    IF \/ contains_draw[IRIS_BATCH_RENDER]
       \/ render_entries[IRIS_BATCH_RENDER] # 0
    THEN [c EXCEPT ![IRIS_BATCH_RENDER] =
             iris_emit_pipe_control_flush(
                 iris_emit_pipe_control_flush(
                     @, {PIPE_CONTROL_DEPTH_CACHE_FLUSH,
                         PIPE_CONTROL_RENDER_TARGET_FLUSH,
                         PIPE_CONTROL_CS_STALL}),
                 {PIPE_CONTROL_TEXTURE_CACHE_INVALIDATE})]
    ELSE c

\* mutant: the render batch gets one flush with the bits of both
texture_barrier_render_one_flush(c) ==
    IF \/ contains_draw[IRIS_BATCH_RENDER]
       \/ render_entries[IRIS_BATCH_RENDER] # 0
       \/ depth_entries[IRIS_BATCH_RENDER] # 0
    THEN [c EXCEPT ![IRIS_BATCH_RENDER] =
             iris_emit_pipe_control_flush(
                 @, {PIPE_CONTROL_DEPTH_CACHE_FLUSH,
                     PIPE_CONTROL_RENDER_TARGET_FLUSH,
                     PIPE_CONTROL_CS_STALL,
                     PIPE_CONTROL_TEXTURE_CACHE_INVALIDATE})]
    ELSE c

texture_barrier_render(c) ==
    IF \/ contains_draw[IRIS_BATCH_RENDER]
       \/ render_entries[IRIS_BATCH_RENDER] # 0
       \/ depth_entries[IRIS_BATCH_RENDER] # 0
    THEN [c EXCEPT ![IRIS_BATCH_RENDER] =
             iris_emit_pipe_control_flush(
                 iris_emit_pipe_control_flush(
                     @, {PIPE_CONTROL_DEPTH_CACHE_FLUSH,
                         PIPE_CONTROL_RENDER_TARGET_FLUSH,
                         PIPE_CONTROL_CS_STALL}),
                 {PIPE_CONTROL_TEXTURE_CACHE_INVALIDATE})]
    ELSE c

\* mutant: the compute batch is tested like the render batch
texture_barrier_compute_like_render(c) ==
    IF \/ contains_draw[IRIS_BATCH_COMPUTE]
       \/ render_entries[IRIS_BATCH_COMPUTE] # 0
       \/ depth_entries[IRIS_BATCH_COMPUTE] # 0
    THEN [c EXCEPT ![IRIS_BATCH_COMPUTE] =
             iris_emit_pipe_control_flush(
                 iris_emit_pipe_control_flush(@, {PIPE_CONTROL_CS_STALL}),
                 {PIPE_CONTROL_TEXTURE_CACHE_INVALIDATE})]
    ELSE c

\* mutant: the compute batch is flushed whatever its state
texture_barrier_compute_always(c) ==
    [c EXCEPT ![IRIS_BATCH_COMPUTE] =
        iris_emit_pipe_control_flush(
            iris_emit_pipe_control_flush(@, {PIPE_CONTROL_CS_STALL}),
            {PIPE_CONTROL_TEXTURE_CACHE_INVALIDATE})]

texture_barrier_compute(c) ==
    IF contains_draw[IRIS_BATCH_COMPUTE]
    THEN [c EXCEPT ![IRIS_BATCH_COMPUTE] =
             iris_emit_pipe_control_flush(
                 iris_emit_pipe_control_flush(@, {PIPE_CONTROL_CS_STALL}),
                 {PIPE_CONTROL_TEXTURE_CACHE_INVALIDATE})]
    ELSE c

iris_texture_barrier(c) == texture_barrier_compute(texture_barrier_render(c))

(***************************************************************************)
(* iris_memory_barrier: `bits` as accumulated from the PIPE_BARRIER_*      *)
(* flags, then one flush on every batch the loop selects.                  *)
(***************************************************************************)
\* mutant: PIPE_BARRIER_FRAMEBUFFER is left out of the last test
memory_barrier_bits_no_framebuffer(flags) ==
    {PIPE_CONTROL_DATA_CACHE_FLUSH, PIPE_CONTROL_CS_STALL}
    \cup (IF flags \cap {PIPE_BARRIER_VERTEX_BUFFER, PIPE_BARRIER_INDEX_BUFFER,
                         PIPE_BARRIER_INDIRECT_BUFFER} # {}
          THEN {PIPE_CONTROL_VF_CACHE_INVALIDATE} ELSE {})
    \cup (IF PIPE_BARRIER_CONSTANT_BUFFER \in flags
          THEN {PIPE_CONTROL_TEXTURE_CACHE_INVALIDATE,
                PIPE_CONTROL_CONST_CACHE_INVALIDATE} ELSE {})
    \cup (IF PIPE_BARRIER_TEXTURE \in flags
          THEN {PIPE_CONTROL_TEXTURE_CACHE_INVALIDATE,
                PIPE_CONTROL_RENDER_TARGET_FLUSH} ELSE {})

\* mutant: PIPE_BARRIER_CONSTANT_BUFFER invalidates the constant cache alone
memory_barrier_bits_const_only(flags) ==
    {PIPE_CONTROL_DATA_CACHE_FLUSH, PIPE_CONTROL_CS_STALL}
    \cup (IF flags \cap {PIPE_BARRIER_VERTEX_BUFFER, PIPE_BARRIER_INDEX_BUFFER,
                         PIPE_BARRIER_INDIRECT_BUFFER} # {}
          THEN {PIPE_CONTROL_VF_CACHE_INVALIDATE} ELSE {})
    \cup (IF PIPE_BARRIER_CONSTANT_BUFFER \in flags
          THEN {PIPE_CONTROL_CONST_CACHE_INVALIDATE} ELSE {})
    \cup (IF flags \cap {PIPE_BARRIER_TEXTURE, PIPE_BARRIER_FRAMEBUFFER} # {}
          THEN {PIPE_CONTROL_TEXTURE_CACHE_INVALIDATE,
                PIPE_CONTROL_RENDER_TARGET_FLUSH} ELSE {})

memory_barrier_bits(flags) ==
    {PIPE_CONTROL_DATA_CACHE_FLUSH, PIPE_CONTROL_CS_STALL}
    \cup (IF flags \cap {PIPE_BARRIER_VERTEX_BUFFER, PIPE_BARRIER_INDEX_BUFFER,
                         PIPE_BARRIER_INDIRECT_BUFFER} # {}
          THEN {PIPE_CONTROL_VF_CACHE_INVALIDATE} ELSE {})
    \cup (IF PIPE_BARRIER_CONSTANT_BUFFER \in flags
          THEN {PIPE_CONTROL_TEXTURE_CACHE_INVALIDATE,
                PIPE_CONTROL_CONST_CACHE_INVALIDATE} ELSE {})
    \cup (IF flags \cap {PIPE_BARRIER_TEXTURE, PIPE_BARRIER_FRAMEBUFFER} # {}
          THEN {PIPE_CONTROL_TEXTURE_CACHE_INVALIDATE,
                PIPE_CONTROL_RENDER_TARGET_FLUSH} ELSE {})

\* mutant: the loop tests the depth cache too, as iris_texture_barrier does
memory_barrier_selects_depth(i) ==
    contains_draw[i] \/ render_entries[i] # 0 \/ depth_entries[i] # 0

\* mutant: a draw in any batch selects every batch
memory_barrier_selects_any_draw(i) ==
    (\E j \in DOMAIN contains_draw : contains_draw[j]) \/ render_entries[i] # 0

\* mutant: the loop tests contains_draw alone
memory_barrier_selects_draw_only(i) ==
    contains_draw[i]

memory_barrier_selects(i) ==
    contains_draw[i] \/ render_entries[i] # 0

iris_memory_barrier(c, flags) ==
    [i \in Batches |->
        IF memory_barrier_selects(i)
        THEN iris_emit_pipe_control_flush(c[i], memory_barrier_bits(flags))
        ELSE c[i]]

(***************************************************************************)
(* The record of a call and the state between two calls.                   *)
(***************************************************************************)
NoBatch == "none"

Call(op, batch, flags, bo, offset, imm) ==
    [op |-> op, batch |-> batch, flags |-> flags, bo |-> bo,
     offset |-> offset, imm |-> imm]

NoCall == Call("none", NoBatch, {}, NULL, 0, 0)

NoCalls == [b \in Batches |-> <<>>]

Idle == last = NoCall

Init ==
    /\ contains_draw \in [Batches -> BOOLEAN]
    /\ render_entries \in [Batches -> 0..MaxEntries]
    /\ depth_entries \in [Batches -> 0..MaxEntries]
    /\ calls = NoCalls
    /\ last = NoCall

BatchStateUnchanged == UNCHANGED <<contains_draw, render_entries, depth_entries>>

(***************************************************************************)
(* The five entry points, each called by the driver with any arguments.    *)
(***************************************************************************)
EmitFlush ==
    /\ Idle
    /\ \E b \in Batches, flags \in AllFlags :
           /\ calls' = [calls EXCEPT ![b] = iris_emit_pipe_control_flush(@, flags)]
           /\ last' = Call("iris_emit_pipe_control_flush", b, flags, NULL, 0, 0)
           /\ BatchStateUnchanged

EmitFlushWrite ==
    /\ Idle
    /\ \E b \in Batches, flags \in AllFlags, bo \in Buffers, w \in Words :
           /\ calls' = [calls EXCEPT ![b] =
                           iris_emit_pipe_control_write(@, flags, bo, w[1], w[2])]
           /\ last' = Call("iris_emit_pipe_control_write", b, flags, bo, w[1], w[2])
           /\ BatchStateUnchanged

EmitEndOfPipeSync ==
    /\ Idle
    /\ \E b \in Batches, flags \in AllFlags :
           /\ calls' = [calls EXCEPT ![b] = iris_emit_end_of_pipe_sync(@, flags)]
           /\ last' = Call("iris_emit_end_of_pipe_sync", b, flags, NULL, 0, 0)
           /\ BatchStateUnchanged

TextureBarrier ==
    /\ Idle
    /\ calls' = iris_texture_barrier(calls)
    /\ last' = Call("iris_texture_barrier", NoBatch, {}, NULL, 0, 0)
    /\ BatchStateUnchanged

MemoryBarrier ==
    /\ Idle
    /\ \E flags \in AllBarriers :
           /\ calls' = iris_memory_barrier(calls, flags)
           /\ last' = Call("iris_memory_barrier", NoBatch, flags, NULL, 0, 0)
           /\ BatchStateUnchanged

\* the entry point has returned and the driver makes its next call: the
\* record starts again
Return ==
    /\ ~Idle
    /\ calls' = NoCalls
    /\ last' = NoCall
    /\ BatchStateUnchanged

Next ==
    \/ EmitFlush
    \/ EmitFlushWrite
    \/ EmitEndOfPipeSync
    \/ TextureBarrier
    \/ MemoryBarrier
    \/ Return

Spec == Init /\ [][Next]_vars

(***************************************************************************)
(* What the claims read from a state.                                      *)
(***************************************************************************)
\* the emit_raw_pipe_control calls made on batch b, in order
Raw(b) == SelectSeq(calls[b], LAMBDA e : e.fn = RAW)

\* the iris_emit_pipe_control_flush calls made on batch b, in order
Flushes(b) == SelectSeq(calls[b], LAMBDA e : e.fn = FLUSH)

\* one emit_raw_pipe_control call
Cmd(flags, bo, offset, imm) == Entry(RAW, flags, bo, offset, imm)

HasFlush(f) == f \cap PIPE_CONTROL_CACHE_FLUSH_BITS # {}
HasInvalidate(f) == f \cap PIPE_CONTROL_CACHE_INVALIDATE_BITS # {}
Mixed(f) == HasFlush(f) /\ HasInvalidate(f)

Called(op) == last.op = op

\* C1: iris_emit_pipe_control_flush with a flush bit and an invalidate bit in
\* its flags makes exactly two emit_raw_pipe_control calls on its batch: first
\* (flush bits of the flags) | CS_STALL | WRITE_IMMEDIATE to workaround_bo,
\* offset 0, value 0; then the flags without the flush bits and without
\* CS_STALL, with no buffer.
C1_SplitInTwo ==
    (Called("iris_emit_pipe_control_flush") /\ Mixed(last.flags)) =>
        Raw(last.batch) =
            << Cmd((last.flags \cap PIPE_CONTROL_CACHE_FLUSH_BITS)
                       \cup {PIPE_CONTROL_CS_STALL, PIPE_CONTROL_WRITE_IMMEDIATE},
                   workaround_bo, 0, 0),
               Cmd({x \in last.flags :
                        /\ x \notin PIPE_CONTROL_CACHE_FLUSH_BITS
                        /\ x # PIPE_CONTROL_CS_STALL},
                   NULL, 0, 0) >>

\* a split call whose flags also hold CS_STALL and a write bit
C1_Witness ==
    /\ Called("iris_emit_pipe_control_flush")
    /\ last.flags = {PIPE_CONTROL_RENDER_TARGET_FLUSH, PIPE_CONTROL_DATA_CACHE_FLUSH,
                     PIPE_CONTROL_TEXTURE_CACHE_INVALIDATE, PIPE_CONTROL_CS_STALL,
                     PIPE_CONTROL_WRITE_TIMESTAMP}
    /\ Len(Raw(last.batch)) = 2
    /\ Raw(last.batch)[2].flags = {PIPE_CONTROL_TEXTURE_CACHE_INVALIDATE,
                                   PIPE_CONTROL_WRITE_TIMESTAMP}

\* C2 as stated: no emit_raw_pipe_control call made by any of the five entry
\* points has both a flush bit and an invalidate bit in its flags.
C2_NeverMixed ==
    \A b \in Batches : \A i \in 1..Len(Raw(b)) : ~Mixed(Raw(b)[i].flags)

\* C2, amended: no emit_raw_pipe_control call that comes from
\* iris_emit_pipe_control_flush, iris_texture_barrier or iris_memory_barrier
\* has both a flush bit and an invalidate bit; the single call of
\* iris_emit_pipe_control_write has both exactly when the caller's flags do,
\* and that of iris_emit_end_of_pipe_sync likewise.
C2_MixedOnlyByWriteCallers ==
    /\ (\/ Called("iris_emit_pipe_control_flush")
        \/ Called("iris_texture_barrier")
        \/ Called("iris_memory_barrier")) => C2_NeverMixed
    /\ (\/ Called("iris_emit_pipe_control_write")
        \/ Called("iris_emit_end_of_pipe_sync")) =>
           /\ Len(Raw(last.batch)) = 1
           /\ Mixed(Raw(last.batch)[1].flags) <=> Mixed(last.flags)

\* a flush with mixed flags whose two commands are each unmixed
C2_Witness ==
    /\ Called("iris_emit_pipe_control_flush")
    /\ Mixed(last.flags)
    /\ Len(Raw(last.batch)) = 2
    /\ HasFlush(Raw(last.batch)[1].flags)
    /\ HasInvalidate(Raw(last.batch)[2].flags)
    /\ C2_NeverMixed

\* C3: iris_emit_pipe_control_flush with no flush bit or no invalidate bit in
\* its flags makes exactly one emit_raw_pipe_control call on its batch, with
\* the flags unchanged and no buffer.
C3_SingleUnchanged ==
    (Called("iris_emit_pipe_control_flush") /\ ~Mixed(last.flags)) =>
        Raw(last.batch) = << Cmd(last.flags, NULL, 0, 0) >>

\* flush bits with CS_STALL and no invalidate bit: one command, CS_STALL kept
C3_Witness ==
    /\ Called("iris_emit_pipe_control_flush")
    /\ last.flags = {PIPE_CONTROL_DEPTH_CACHE_FLUSH, PIPE_CONTROL_DATA_CACHE_FLUSH,
                     PIPE_CONTROL_CS_STALL}
    /\ Len(Raw(last.batch)) = 1
    /\ PIPE_CONTROL_CS_STALL \in Raw(last.batch)[1].flags

\* C4: iris_emit_end_of_pipe_sync makes exactly one emit_raw_pipe_control call
\* on its batch, flags | CS_STALL | WRITE_IMMEDIATE to workaround_bo, offset
\* 0, value 0, whatever the flags.
C4_EndOfPipeSync ==
    Called("iris_emit_end_of_pipe_sync") =>
        Raw(last.batch) =
            << Cmd(last.flags \cup {PIPE_CONTROL_CS_STALL, PIPE_CONTROL_WRITE_IMMEDIATE},
                   workaround_bo, 0, 0) >>

\* a sync whose flags hold an invalidate bit and another write bit
C4_Witness ==
    /\ Called("iris_emit_end_of_pipe_sync")
    /\ last.flags = {PIPE_CONTROL_VF_CACHE_INVALIDATE, PIPE_CONTROL_WRITE_DEPTH_COUNT}
    /\ Len(Raw(last.batch)) = 1
    /\ Raw(last.batch)[1].bo = workaround_bo

RenderBusy ==
    \/ contains_draw[IRIS_BATCH_RENDER]
    \/ render_entries[IRIS_BATCH_RENDER] > 0
    \/ depth_entries[IRIS_BATCH_RENDER] > 0

\* C5: iris_texture_barrier emits on the render batch if and only if that
\* batch contains a draw or has render cache entries or depth cache entries;
\* then the render batch gets exactly two commands, {depth cache flush,
\* render target flush, CS stall} first and {texture cache invalidate}
\* second, neither with a buffer.
C5_TextureBarrierRender ==
    Called("iris_texture_barrier") =>
        Raw(IRIS_BATCH_RENDER) =
            IF RenderBusy
            THEN << Cmd({PIPE_CONTROL_DEPTH_CACHE_FLUSH,
                         PIPE_CONTROL_RENDER_TARGET_FLUSH,
                         PIPE_CONTROL_CS_STALL}, NULL, 0, 0),
                    Cmd({PIPE_CONTROL_TEXTURE_CACHE_INVALIDATE}, NULL, 0, 0) >>
            ELSE << >>

\* a render batch whose only outstanding work is depth cache entries
C5_Witness ==
    /\ Called("iris_texture_barrier")
    /\ ~contains_draw[IRIS_BATCH_RENDER]
    /\ render_entries[IRIS_BATCH_RENDER] = 0
    /\ depth_entries[IRIS_BATCH_RENDER] > 0
    /\ Len(Raw(IRIS_BATCH_RENDER)) = 2
    /\ PIPE_CONTROL_CS_STALL \in Raw(IRIS_BATCH_RENDER)[1].flags
    /\ Raw(IRIS_BATCH_RENDER)[2].flags = {PIPE_CONTROL_TEXTURE_CACHE_INVALIDATE}

\* C6: iris_texture_barrier emits on the compute batch if and only if that
\* batch contains a draw, whatever its cache entry counts; then the compute
\* batch gets exactly two commands, {CS stall} first and {texture cache
\* invalidate} second, neither with a buffer.
C6_TextureBarrierCompute ==
    Called("iris_texture_barrier") =>
        Raw(IRIS_BATCH_COMPUTE) =
            IF contains_draw[IRIS_BATCH_COMPUTE]
            THEN << Cmd({PIPE_CONTROL_CS_STALL}, NULL, 0, 0),
                    Cmd({PIPE_CONTROL_TEXTURE_CACHE_INVALIDATE}, NULL, 0, 0) >>
            ELSE << >>

\* a compute batch with a draw and no cache entries, flushed while the render
\* batch is left alone
C6_Witness ==
    /\ Called("iris_texture_barrier")
    /\ contains_draw[IRIS_BATCH_COMPUTE]
    /\ render_entries[IRIS_BATCH_COMPUTE] = 0
    /\ depth_entries[IRIS_BATCH_COMPUTE] = 0
    /\ Len(Raw(IRIS_BATCH_COMPUTE)) = 2
    /\ Raw(IRIS_BATCH_COMPUTE)[1].flags = {PIPE_CONTROL_CS_STALL}
    /\ Raw(IRIS_BATCH_RENDER) = << >>

\* C7: with no draw and no render or depth cache entries in the render batch
\* and no draw in the compute batch, iris_texture_barrier makes no
\* emit_raw_pipe_control call on any batch.
C7_TextureBarrierIdle ==
    (/\ Called("iris_texture_barrier")
     /\ ~RenderBusy
     /\ ~contains_draw[IRIS_BATCH_COMPUTE]) =>
        \A b \in Batches : Raw(b) = << >>

\* an idle texture barrier; the compute batch has cache entries but no draw
C7_Witness ==
    /\ Called("iris_texture_barrier")
    /\ ~RenderBusy
    /\ ~contains_draw[IRIS_BATCH_COMPUTE]
    /\ render_entries[IRIS_BATCH_COMPUTE] > 0
    /\ depth_entries[IRIS_BATCH_COMPUTE] > 0
    /\ \A b \in Batches : calls[b] = << >>

\* the flags iris_memory_barrier hands to iris_emit_pipe_control_flush on b
Requested(b) == Flushes(b)[1].flags

\* C8: iris_memory_barrier on a batch that contains a draw: when the flags it
\* hands to iris_emit_pipe_control_flush hold a flush bit and an invalidate
\* bit, an earlier command holds every requested flush bit and a later one
\* every requested invalidate bit; with PIPE_BARRIER_TEXTURE these are the
\* render target flush and the texture cache invalidate; and no command holds
\* both a flush bit and an invalidate bit.
C8_MemoryBarrierOrder ==
    Called("iris_memory_barrier") =>
        \A b \in Batches : contains_draw[b] =>
            /\ Len(Flushes(b)) = 1
            /\ Mixed(Requested(b)) =>
                   \E i, j \in 1..Len(Raw(b)) :
                       /\ i < j
                       /\ Requested(b) \cap PIPE_CONTROL_CACHE_FLUSH_BITS
                              \subseteq Raw(b)[i].flags
                       /\ Requested(b) \cap PIPE_CONTROL_CACHE_INVALIDATE_BITS
                              \subseteq Raw(b)[j].flags
            /\ PIPE_BARRIER_TEXTURE \in last.flags =>
                   \E i, j \in 1..Len(Raw(b)) :
                       /\ i < j
                       /\ PIPE_CONTROL_RENDER_TARGET_FLUSH \in Raw(b)[i].flags
                       /\ PIPE_CONTROL_TEXTURE_CACHE_INVALIDATE \in Raw(b)[j].flags
            /\ \A i \in 1..Len(Raw(b)) : ~Mixed(Raw(b)[i].flags)

\* a memory barrier for textures on a render batch with a draw
C8_Witness ==
    /\ Called("iris_memory_barrier")
    /\ last.flags = {PIPE_BARRIER_TEXTURE}
    /\ contains_draw[IRIS_BATCH_RENDER]
    /\ Len(Raw(IRIS_BATCH_RENDER)) = 2
    /\ PIPE_CONTROL_RENDER_TARGET_FLUSH \in Raw(IRIS_BATCH_RENDER)[1].flags
    /\ PIPE_CONTROL_TEXTURE_CACHE_INVALIDATE \in Raw(IRIS_BATCH_RENDER)[2].flags

\* the bits C9 names for the PIPE_BARRIER_* flags f
C9_Bits(f) ==
    {x \in AllBits :
        \/ x \in {PIPE_CONTROL_DATA_CACHE_FLUSH, PIPE_CONTROL_CS_STALL}
        \/ /\ x = PIPE_CONTROL_VF_CACHE_INVALIDATE
           /\ \/ PIPE_BARRIER_VERTEX_BUFFER \in f
              \/ PIPE_BARRIER_INDEX_BUFFER \in f
              \/ PIPE_BARRIER_INDIRECT_BUFFER \in f
        \/ /\ x \in {PIPE_CONTROL_TEXTURE_CACHE_INVALIDATE,
                     PIPE_CONTROL_CONST_CACHE_INVALIDATE}
           /\ PIPE_BARRIER_CONSTANT_BUFFER \in f
        \/ /\ x \in {PIPE_CONTROL_TEXTURE_CACHE_INVALIDATE,
                     PIPE_CONTROL_RENDER_TARGET_FLUSH}
           /\ \/ PIPE_BARRIER_TEXTURE \in f
              \/ PIPE_BARRIER_FRAMEBUFFER \in f}

\* C9: every iris_emit_pipe_control_flush call of iris_memory_barrier gets the
\* flags {data cache flush, CS stall}, plus VF cache invalidate iff the
\* barrier names vertex, index or indirect buffers, plus texture and constant
\* cache invalidate iff it names constant buffers, plus texture cache
\* invalidate and render target flush iff it names textures or the
\* framebuffer; nothing else, and the same on every batch.
C9_MemoryBarrierBits ==
    Called("iris_memory_barrier") =>
        \A b \in Batches : \A i \in 1..Len(Flushes(b)) :
            Flushes(b)[i].flags = C9_Bits(last.flags)

\* a framebuffer barrier (with a bit the function never tests) that reaches
\* both batches with the same flags
C9_Witness ==
    /\ Called("iris_memory_barrier")
    /\ last.flags = {PIPE_BARRIER_FRAMEBUFFER, PIPE_BARRIER_INDEX_BUFFER,
                     PIPE_BARRIER_SHADER_BUFFER}
    /\ \A b \in Batches :
           /\ Len(Flushes(b)) = 1
           /\ Flushes(b)[1].flags =
                  {PIPE_CONTROL_DATA_CACHE_FLUSH, PIPE_CONTROL_CS_STALL,
                   PIPE_CONTROL_VF_CACHE_INVALIDATE,
                   PIPE_CONTROL_TEXTURE_CACHE_INVALIDATE,
                   PIPE_CONTROL_RENDER_TARGET_FLUSH}

\* C10: iris_memory_barrier makes no emit_raw_pipe_control call on a batch
\* that contains no draw and has no render cache entries; and neither barrier
\* makes one on a batch with no draw and no render or depth cache entries.
C10_IdleBatchesSkipped ==
    /\ Called("iris_memory_barrier") =>
           \A b \in Batches :
               (~contains_draw[b] /\ render_entries[b] = 0) => Raw(b) = << >>
    /\ (Called("iris_memory_barrier") \/ Called("iris_texture_barrier")) =>
           \A b \in Batches :
               (/\ ~contains_draw[b]
                /\ render_entries[b] = 0
                /\ depth_entries[b] = 0) => Raw(b) = << >>

\* a memory barrier that skips the render batch, whose only outstanding work
\* is depth cache entries, and flushes the compute batch
C10_Witness ==
    /\ Called("iris_memory_barrier")
    /\ ~contains_draw[IRIS_BATCH_RENDER]
    /\ render_entries[IRIS_BATCH_RENDER] = 0
    /\ depth_entries[IRIS_BATCH_RENDER] > 0
    /\ calls[IRIS_BATCH_RENDER] = << >>
    /\ Len(Raw(IRIS_BATCH_COMPUTE)) > 0

\* C11: iris_emit_pipe_control_write makes exactly one emit_raw_pipe_control
\* call on its batch, with the flags, buffer, offset and value it was given,
\* whatever the flags (a flush bit together with an invalidate bit included):
\* nothing is changed and nothing is split.
C11_WritePassedThrough ==
    Called("iris_emit_pipe_control_write") =>
        Raw(last.batch) = << Cmd(last.flags, last.bo, last.offset, last.imm) >>

\* a write with a flush bit and an invalidate bit to a caller's buffer, at a
\* non-zero offset with a non-zero value
C11_Witness ==
    /\ Called("iris_emit_pipe_control_write")
    /\ last.flags = {PIPE_CONTROL_RENDER_TARGET_FLUSH,
                     PIPE_CONTROL_TEXTURE_CACHE_INVALIDATE,
                     PIPE_CONTROL_WRITE_TIMESTAMP}
    /\ last.bo = query_bo
    /\ last.offset > 0
    /\ last.imm > 0
    /\ Len(Raw(last.batch)) = 1
    /\ Mixed(Raw(last.batch)[1].flags)
    /\ Raw(last.batch)[1].offset = last.offset

\* the write bits of a set of flags
WriteBitsOf(f) == f \cap WriteBits

ExactlyOneWriteBit(f) == \E x \in WriteBits : WriteBitsOf(f) = {x}

\* C12 as stated: every emit_raw_pipe_control call with a buffer has exactly
\* one of WRITE_IMMEDIATE, WRITE_TIMESTAMP and WRITE_DEPTH_COUNT in its flags,
\* whatever flags iris_emit_pipe_control_write and iris_emit_end_of_pipe_sync
\* are called with.
C12_ExactlyOneWriteBit ==
    \A b \in Batches : \A i \in 1..Len(Raw(b)) :
        Raw(b)[i].bo # NULL => ExactlyOneWriteBit(Raw(b)[i].flags)

\* C12, amended: an emit_raw_pipe_control call with a buffer that comes from
\* iris_emit_pipe_control_flush, iris_texture_barrier or iris_memory_barrier
\* has WRITE_IMMEDIATE as its only write bit; the call of
\* iris_emit_pipe_control_write has the write bits of the caller's flags, and
\* that of iris_emit_end_of_pipe_sync those and WRITE_IMMEDIATE: exactly one
\* write bit only when the caller passed exactly one, respectively neither
\* WRITE_TIMESTAMP nor WRITE_DEPTH_COUNT.
C12_WriteBitsAsPassed ==
    /\ (\/ Called("iris_emit_pipe_control_flush")
        \/ Called("iris_texture_barrier")
        \/ Called("iris_memory_barrier")) =>
           \A b \in Batches : \A i \in 1..Len(Raw(b)) :
               Raw(b)[i].bo # NULL =>
                   WriteBitsOf(Raw(b)[i].flags) = {PIPE_CONTROL_WRITE_IMMEDIATE}
    /\ Called("iris_emit_pipe_control_write") =>
           /\ Len(Raw(last.batch)) = 1
           /\ WriteBitsOf(Raw(last.batch)[1].flags) = WriteBitsOf(last.flags)
    /\ Called("iris_emit_end_of_pipe_sync") =>
           /\ Len(Raw(last.batch)) = 1
           /\ WriteBitsOf(Raw(last.batch)[1].flags) =
                  WriteBitsOf(last.flags) \cup {PIPE_CONTROL_WRITE_IMMEDIATE}
           /\ ExactlyOneWriteBit(Raw(last.batch)[1].flags) <=>
                  /\ PIPE_CONTROL_WRITE_TIMESTAMP \notin last.flags
                  /\ PIPE_CONTROL_WRITE_DEPTH_COUNT \notin last.flags

\* a split flush whose flags hold WRITE_TIMESTAMP: the command with the
\* buffer has WRITE_IMMEDIATE alone, the timestamp bit goes out without one
C12_Witness ==
    /\ Called("iris_emit_pipe_control_flush")
    /\ Mixed(last.flags)
    /\ PIPE_CONTROL_WRITE_TIMESTAMP \in last.flags
    /\ Len(Raw(last.batch)) = 2
    /\ Raw(last.batch)[1].bo = workaround_bo
    /\ WriteBitsOf(Raw(last.batch)[1].flags) = {PIPE_CONTROL_WRITE_IMMEDIATE}
    /\ Raw(last.batch)[2].bo = NULL

(***************************************************************************)
(* Two calls in a row.  The driver calls the entry point it has just       *)
(* called once more, with the same arguments, and the batch records go on  *)
(* from where the first call left them.  Before it does, the driver may    *)
(* have recorded more work in one batch: the fields of a batch are the     *)
(* driver's, and this file only reads them.  A mark in a batch's record    *)
(* separates the two calls, another one says that the batch's fields       *)
(* changed between them.                                                   *)
(***************************************************************************)
AGAIN == "called again"
CHANGED == "batch changed"

Mark(m) == Entry(m, {}, NULL, 0, 0)

HasMark(s, m) == \E k \in 1..Len(s) : s[k].fn = m

IsBarrier == last.op \in {"iris_texture_barrier", "iris_memory_barrier"}

\* the entry point of `last`, run on the records c
CallLast(c) ==
    CASE last.op = "iris_emit_pipe_control_flush" ->
             [c EXCEPT ![last.batch] = iris_emit_pipe_control_flush(@, last.flags)]
      [] last.op = "iris_emit_pipe_control_write" ->
             [c EXCEPT ![last.batch] =
                 iris_emit_pipe_control_write(@, last.flags, last.bo,
                                              last.offset, last.imm)]
      [] last.op = "iris_emit_end_of_pipe_sync" ->
             [c EXCEPT ![last.batch] = iris_emit_end_of_pipe_sync(@, last.flags)]
      [] last.op = "iris_texture_barrier" -> iris_texture_barrier(c)
      [] last.op = "iris_memory_barrier" -> iris_memory_barrier(c, last.flags)

\* the driver records work in batch b after a barrier
DriverWork ==
    /\ IsBarrier
    /\ \A b \in Batches : ~HasMark(calls[b], AGAIN) /\ ~HasMark(calls[b], CHANGED)
    /\ \E b \in Batches, d \in BOOLEAN, r \in 0..MaxEntries, z \in 0..MaxEntries :
           /\ <<d, r, z>> # <<contains_draw[b], render_entries[b], depth_entries[b]>>
           /\ contains_draw' = [contains_draw EXCEPT ![b] = d]
           /\ render_entries' = [render_entries EXCEPT ![b] = r]
           /\ depth_entries' = [depth_entries EXCEPT ![b] = z]
           /\ calls' = [calls EXCEPT ![b] = Append(@, Mark(CHANGED))]
    /\ UNCHANGED last

\* the driver makes the same call again
Again ==
    /\ ~Idle
    /\ \A b \in Batches : ~HasMark(calls[b], AGAIN)
    /\ calls' = CallLast([b \in Batches |-> Append(calls[b], Mark(AGAIN))])
    /\ UNCHANGED last
    /\ BatchStateUnchanged

NextTwice ==
    \/ Next
    \/ DriverWork
    \/ Again

SpecTwice == Init /\ [][NextTwice]_vars

\* the calls of a record, without the marks
Emitted(s) == SelectSeq(s, LAMBDA e : e.fn \in {RAW, FLUSH})

CalledAgain == \A b \in Batches : HasMark(calls[b], AGAIN)

AgainAt(b) == CHOOSE k \in 1..Len(calls[b]) : calls[b][k].fn = AGAIN

\* what the first call and what the second call made on batch b
First(b) == Emitted(SubSeq(calls[b], 1, AgainAt(b) - 1))
Second(b) == SubSeq(calls[b], AgainAt(b) + 1, Len(calls[b]))

BatchChanged(b) == HasMark(calls[b], CHANGED)

BatchState == <<contains_draw, render_entries, depth_entries>>

\* a step that changes a batch's fields is a step of the driver alone: the
\* call and what it emitted are as before
C13_OnlyDriverChangesBatches ==
    BatchState' # BatchState =>
        /\ last' = last
        /\ \A b \in Batches : Emitted(calls'[b]) = Emitted(calls[b])

\* an entry point called again, with every batch's fields as they were,
\* makes the calls it made the first time
C13_SameCallsAgain ==
    (CalledAgain /\ \A b \in Batches : ~BatchChanged(b)) =>
        \A b \in Batches : Second(b) = First(b)

DirectCall ==
    last.op \in {"iris_emit_pipe_control_flush", "iris_emit_pipe_control_write",
                 "iris_emit_end_of_pipe_sync"}

\* C14: iris_emit_pipe_control_flush, iris_emit_pipe_control_write and
\* iris_emit_end_of_pipe_sync make calls on the batch they are given and on
\* no other; what a barrier makes on a batch depends on that batch's fields
\* and on the barrier's flags alone: called again after the driver changed
\* another batch, it makes on this batch the calls it made the first time.
C14_BatchesIndependent ==
    /\ DirectCall =>
           /\ Emitted(calls[last.batch]) # << >>
           /\ \A b \in Batches \ {last.batch} : Emitted(calls[b]) = << >>
    /\ (IsBarrier /\ CalledAgain) =>
           \A b \in Batches : ~BatchChanged(b) => Second(b) = First(b)

\* a memory barrier called again after the compute batch lost its work: the
\* compute batch is skipped the second time, the render batch gets the same
\* calls as before
C14_Witness ==
    /\ Called("iris_memory_barrier")
    /\ CalledAgain
    /\ BatchChanged(IRIS_BATCH_COMPUTE)
    /\ ~BatchChanged(IRIS_BATCH_RENDER)
    /\ First(IRIS_BATCH_COMPUTE) # << >>
    /\ Second(IRIS_BATCH_COMPUTE) = << >>
    /\ First(IRIS_BATCH_RENDER) # << >>
    /\ Second(IRIS_BATCH_RENDER) = First(IRIS_BATCH_RENDER)

\* the batches the loop of iris_memory_barrier flushes, as C15 states them
C15_Selected(b) == contains_draw[b] \/ render_entries[b] > 0

OnlyDepthEntries(b) ==
    ~contains_draw[b] /\ render_entries[b] = 0 /\ depth_entries[b] > 0

\* C15: iris_memory_barrier calls iris_emit_pipe_control_flush exactly once,
\* with the accumulated bits, on every batch that contains a draw or has
\* render cache entries, and on no other batch; depth cache entries do not
\* count: a batch with depth cache entries only gets nothing from
\* iris_memory_barrier, while iris_texture_barrier does emit on the render
\* batch in that state.
C15_MemoryBarrierSelection ==
    /\ Called("iris_memory_barrier") =>
           \A b \in Batches :
               /\ Flushes(b) =
                      IF C15_Selected(b)
                      THEN << Entry(FLUSH, C9_Bits(last.flags), NULL, 0, 0) >>
                      ELSE << >>
               /\ OnlyDepthEntries(b) => calls[b] = << >>
    /\ (Called("iris_texture_barrier") /\ OnlyDepthEntries(IRIS_BATCH_RENDER)) =>
           Raw(IRIS_BATCH_RENDER) # << >>

\* a memory barrier that skips a render batch with depth cache entries only
\* and flushes a compute batch with render cache entries only
C15_Witness ==
    /\ Called("iris_memory_barrier")
    /\ OnlyDepthEntries(IRIS_BATCH_RENDER)
    /\ calls[IRIS_BATCH_RENDER] = << >>
    /\ ~contains_draw[IRIS_BATCH_COMPUTE]
    /\ render_entries[IRIS_BATCH_COMPUTE] > 0
    /\ Len(Flushes(IRIS_BATCH_COMPUTE)) = 1

C16_Scoped(f) ==
    f \cap {PIPE_BARRIER_VERTEX_BUFFER, PIPE_BARRIER_INDEX_BUFFER,
            PIPE_BARRIER_INDIRECT_BUFFER, PIPE_BARRIER_CONSTANT_BUFFER,
            PIPE_BARRIER_TEXTURE, PIPE_BARRIER_FRAMEBUFFER} # {}

C16_SyncFlags(f) ==
    {x \in AllBits :
        \/ x \in {PIPE_CONTROL_DATA_CACHE_FLUSH, PIPE_CONTROL_CS_STALL,
                  PIPE_CONTROL_WRITE_IMMEDIATE}
        \/ /\ x = PIPE_CONTROL_RENDER_TARGET_FLUSH
           /\ PIPE_BARRIER_TEXTURE \in f \/ PIPE_BARRIER_FRAMEBUFFER \in f}

C16_InvalidateFlags(f) == C9_Bits(f) \cap PIPE_CONTROL_CACHE_INVALIDATE_BITS

\* C16: on each batch iris_memory_barrier flushes: with none of the vertex
\* buffer, index buffer, indirect buffer, constant buffer, texture and
\* framebuffer bits in its flags the batch gets exactly one command, {data
\* cache flush, CS stall} with no buffer; otherwise exactly two, first the
\* end-of-pipe sync {data cache flush, render target flush iff texture or
\* framebuffer, CS stall, write immediate} writing 0 at offset 0 of the
\* workaround bo, then the accumulated invalidate bits alone, with no flush
\* bit, no CS stall and no buffer.
C16_MemoryBarrierCommands ==
    Called("iris_memory_barrier") =>
        \A b \in Batches : C15_Selected(b) =>
            IF ~C16_Scoped(last.flags)
            THEN Raw(b) = << Cmd({PIPE_CONTROL_DATA_CACHE_FLUSH,
                                  PIPE_CONTROL_CS_STALL}, NULL, 0, 0) >>
            ELSE /\ Raw(b) = << Cmd(C16_SyncFlags(last.flags), workaround_bo, 0, 0),
                                Cmd(C16_InvalidateFlags(last.flags), NULL, 0, 0) >>
                 /\ C16_InvalidateFlags(last.flags) # {}
                 /\ ~HasFlush(Raw(b)[2].flags)
                 /\ PIPE_CONTROL_CS_STALL \notin Raw(b)[2].flags

\* a constant buffer and framebuffer barrier on a render batch with a draw
C16_Witness ==
    /\ Called("iris_memory_barrier")
    /\ last.flags = {PIPE_BARRIER_CONSTANT_BUFFER, PIPE_BARRIER_FRAMEBUFFER}
    /\ contains_draw[IRIS_BATCH_RENDER]
    /\ Len(Raw(IRIS_BATCH_RENDER)) = 2
    /\ Raw(IRIS_BATCH_RENDER)[1].bo = workaround_bo
    /\ Raw(IRIS_BATCH_RENDER)[2].flags =
           {PIPE_CONTROL_TEXTURE_CACHE_INVALIDATE,
            PIPE_CONTROL_CONST_CACHE_INVALIDATE}

RawCount == Len(Raw(IRIS_BATCH_RENDER)) + Len(Raw(IRIS_BATCH_COMPUTE))

\* C17: every command that comes from iris_texture_barrier or
\* iris_memory_barrier has a buffer if and only if its flags hold
\* WRITE_IMMEDIATE, and then the buffer is the workaround bo, the offset 0,
\* the value 0 and the flags hold CS_STALL; iris_texture_barrier emits no
\* command with a buffer, and emits 0, 2 or 4 commands in all.
C17_BarrierWrites ==
    /\ IsBarrier =>
           \A b \in Batches : \A k \in 1..Len(Raw(b)) :
               /\ Raw(b)[k].bo # NULL <=>
                      PIPE_CONTROL_WRITE_IMMEDIATE \in Raw(b)[k].flags
               /\ Raw(b)[k].bo # NULL =>
                      /\ Raw(b)[k].bo = workaround_bo
                      /\ Raw(b)[k].offset = 0
                      /\ Raw(b)[k].imm = 0
                      /\ PIPE_CONTROL_CS_STALL \in Raw(b)[k].flags
    /\ Called("iris_texture_barrier") =>
           /\ \A b \in Batches : \A k \in 1..Len(Raw(b)) :
                  /\ Raw(b)[k].bo = NULL
                  /\ WriteBitsOf(Raw(b)[k].flags) = {}
           /\ RawCount \in {0, 2, 4}

\* a memory barrier that makes, on both batches, one command that writes to
\* the workaround bo and one that writes nothing
C17_Witness ==
    /\ Called("iris_memory_barrier")
    /\ \A b \in Batches :
           /\ Len(Raw(b)) = 2
           /\ Raw(b)[1].bo = workaround_bo
           /\ PIPE_CONTROL_WRITE_IMMEDIATE \in Raw(b)[1].flags
           /\ Raw(b)[2].bo = NULL

=============================================================================
